---- MODULE Spec2Model ----
(***************************************************************************)
(* Model of the big-number calculator engine: the BigNumber decimal type   *)
(* of src/src/number.rs (parsing, normalisation, arithmetic, formatting)   *)
(* and the expression evaluator of src/src/main.rs.                        *)
(*                                                                         *)
(* Text is a sequence of one-character strings.  A BigInt (num_bigint) is  *)
(* a sign and a magnitude; the magnitude is a sequence of decimal digits,  *)
(* least significant first, with no high-order zero (zero is <<>>), so a   *)
(* mantissa has no fixed width, as in the program.                         *)
(***************************************************************************)
EXTENDS Integers, Sequences, FiniteSets, TLC

VARIABLES
    pc,         \* position of the running call: "idle", "loop", "drain", "done"
    fn,         \* name of the operation that was called
    args,       \* the inputs of the call
    ret,        \* the value the call returned (a Result: Ok / Err / Fault)
    tokens,     \* evaluate_expression: the whitespace-separated tokens
    pos,        \* evaluate_expression: index of the next token of the for loop
    numbers,    \* evaluate_expression: operand stack (Vec<BigNumber>)
    operators,  \* evaluate_expression: operator stack (Vec<char>)
    applied,    \* evaluate_expression: log of the apply_operation calls made
    calculator  \* the Calculator of the user interface (src/src/main.rs)

vars == <<pc, fn, args, ret, tokens, pos, numbers, operators, applied, calculator>>

(***************************************************************************)
(* Results: Result<T, String>, plus the unrecoverable fault (a panic).     *)
(***************************************************************************)
Ok(v) == [kind |-> "ok", val |-> v]

Err(msg) == [kind |-> "err", val |-> msg]

Fault(msg) == [kind |-> "fault", val |-> msg]

IsOk(r) == r.kind = "ok"

IsErr(r) == r.kind = "err"

IsFault(r) == r.kind = "fault"

\* Option<T>
None == [kind |-> "none"]

Some(v) == [kind |-> "some", val |-> v]

(***************************************************************************)
(* Magnitudes: arbitrary-precision naturals, digit by digit.               *)
(***************************************************************************)
Max(x, y) == IF x >= y THEN x ELSE y

Min(x, y) == IF x <= y THEN x ELSE y

\* drop the high-order zeros
Trim(m) ==
    IF \A i \in 1..Len(m) : m[i] = 0 THEN <<>>
    ELSE SubSeq(m, 1, CHOOSE i \in 1..Len(m) : m[i] # 0 /\ \A j \in (i + 1)..Len(m) : m[j] = 0)

Zeros(n) == [i \in 1..n |-> 0]

\* F applied to the value of e, which is computed once
Let(e, F(_)) == CHOOSE y \in { F(x) : x \in {e} } : TRUE

RECURSIVE NatFromInt(_)
NatFromInt(n) == IF n = 0 THEN <<>> ELSE <<n % 10>> \o NatFromInt(n \div 10)

\* digit i of a magnitude (0 beyond its length)
Digit(a, i) == IF i <= Len(a) THEN a[i] ELSE 0

NatCmp(a, b) ==
    IF Len(a) < Len(b) THEN -1
    ELSE IF Len(a) > Len(b) THEN 1
    ELSE IF a = b THEN 0
    ELSE LET i == CHOOSE i \in 1..Len(a) : a[i] # b[i] /\ \A j \in (i + 1)..Len(a) : a[j] = b[j]
         IN  IF a[i] < b[i] THEN -1 ELSE 1

NatLe(a, b) == NatCmp(a, b) <= 0

NatLt(a, b) == NatCmp(a, b) < 0

\* a + b: the carry into digit i is 1 when some lower digit pair overflows and
\* every pair between sums to 9
NatAdd(a, b) ==
    LET n == Max(Len(a), Len(b)) + 1
        s == [i \in 1..n |-> Digit(a, i) + Digit(b, i)]
        Carry(i) == IF \E j \in 1..(i - 1) : s[j] >= 10 /\ \A k \in (j + 1)..(i - 1) : s[k] = 9
                    THEN 1 ELSE 0
    IN  Trim([i \in 1..n |-> (s[i] + Carry(i)) % 10])

\* a - b for a >= b: the borrow from digit i is 1 when some lower digit of a is
\* smaller and every pair between is equal
NatSub(a, b) ==
    LET Borrow(i) == IF \E j \in 1..(i - 1) : a[j] < Digit(b, j)
                                              /\ \A k \in (j + 1)..(i - 1) : a[k] = Digit(b, k)
                     THEN 1 ELSE 0
    IN  Trim([i \in 1..Len(a) |-> (a[i] - Digit(b, i) - Borrow(i) + 10) % 10])

\* a * 10^k
NatShift(a, k) == IF a = <<>> THEN <<>> ELSE Zeros(k) \o a

\* the sum of the digit planes m.. of the column sums c: digit m of every column
\* sum is a magnitude, to be added 10^m times
RECURSIVE SumPlanes(_, _, _, _)
SumPlanes(c, m, p, acc) ==
    IF \A k \in 1..Len(c) : c[k] \div p = 0 THEN acc
    ELSE Let(NatAdd(acc, NatShift(Trim([k \in 1..Len(c) |-> (c[k] \div p) % 10]), m)),
             LAMBDA acc2 : SumPlanes(c, m + 1, p * 10, acc2))

\* a * b: column k holds the sum of the digit products a[i] * b[j], i + j = k + 1
NatMul(a, b) ==
    IF a = <<>> \/ b = <<>> THEN <<>>
    ELSE Let([k \in 1..(Len(a) + Len(b)) |->
                 LET lo == Max(1, k + 1 - Len(b))
                     hi == Min(k, Len(a))
                     RECURSIVE Col(_)
                     Col(i) == IF i > hi THEN 0 ELSE a[i] * b[k + 1 - i] + Col(i + 1)
                 IN  Col(lo)],
             LAMBDA c : SumPlanes(c, 0, 1, <<>>))

\* one step of long division: bring digit x down to the remainder qr.r; mult[k + 1]
\* is k times the divisor
DivStep(qr, x, mult) ==
    Let(Trim(<<x>> \o qr.r),
        LAMBDA r1 :
            Let(Cardinality({ k \in 1..9 : NatLe(mult[k + 1], r1) }),
                LAMBDA d : [q |-> <<d>> \o qr.q, r |-> NatSub(r1, mult[d + 1])]))

\* long division, b # 0, from digit i of a down: qr holds the quotient and the
\* remainder of the digits above i
RECURSIVE NatDivLoop(_, _, _, _)
NatDivLoop(a, mult, i, qr) ==
    IF i = 0 THEN [q |-> Trim(qr.q), r |-> qr.r]
    ELSE Let(DivStep(qr, a[i], mult), LAMBDA qr2 : NatDivLoop(a, mult, i - 1, qr2))

RECURSIVE NatToInt(_)
NatToInt(m) == IF m = <<>> THEN 0 ELSE m[1] + 10 * NatToInt(Tail(m))

\* long division by a divisor n that fits a machine word, from digit i of a
\* down: st holds the quotient and the remainder (always below n) of the digits above i
RECURSIVE NatDivSmall(_, _, _, _)
NatDivSmall(a, n, i, st) ==
    IF st.r >= n \/ i = 0 THEN [q |-> Trim(st.q), r |-> NatFromInt(st.r)]
    ELSE NatDivSmall(a, n, i - 1, [q |-> <<(10 * st.r + a[i]) \div n>> \o st.q,
                                   r |-> (10 * st.r + a[i]) % n])

\* [q, r] with a = q * b + r and r < b
NatDivRem(a, b) ==
    IF Len(b) <= 8 THEN NatDivSmall(a, NatToInt(b), Len(a), [q |-> <<>>, r |-> 0])
    ELSE Let([k \in 1..10 |-> NatMul(b, NatFromInt(k - 1))],
             LAMBDA mult : NatDivLoop(a, mult, Len(a), [q |-> <<>>, r |-> <<>>]))

\* 10^k (BigInt::from(10).pow(k))
NatPow10(k) == Zeros(k) \o <<1>>

(***************************************************************************)
(* BigInt: sign and magnitude; zero is never negative.                     *)
(***************************************************************************)
BigInt(neg, mag) == [neg |-> (neg /\ mag # <<>>), mag |-> mag]

BigZero == BigInt(FALSE, <<>>)

BigOne == BigInt(FALSE, <<1>>)

BigFromInt(n) == IF n < 0 THEN BigInt(TRUE, NatFromInt(-n)) ELSE BigInt(FALSE, NatFromInt(n))

is_zero(x) == x.mag = <<>>

BigNeg(x) == BigInt(~x.neg, x.mag)

BigAdd(x, y) ==
    IF x.neg = y.neg THEN BigInt(x.neg, NatAdd(x.mag, y.mag))
    ELSE IF NatLe(y.mag, x.mag) THEN BigInt(x.neg, NatSub(x.mag, y.mag))
    ELSE BigInt(y.neg, NatSub(y.mag, x.mag))

BigSub(x, y) == BigAdd(x, BigNeg(y))

BigMul(x, y) == BigInt(x.neg # y.neg, NatMul(x.mag, y.mag))

\* BigInt division truncates toward zero; y # 0
BigDiv(x, y) == BigInt(x.neg # y.neg, NatDivRem(x.mag, y.mag).q)

\* &mantissa % 10 == 0
BigDivisibleBy10(x) == x.mag = <<>> \/ x.mag[1] = 0

\* mantissa /= 10, for a mantissa divisible by 10
BigDiv10(x) == BigInt(x.neg, IF x.mag = <<>> THEN <<>> ELSE Tail(x.mag))

(***************************************************************************)
(* Text: a sequence of one-character strings.  Tokens come from            *)
(* split_whitespace, so the texts of the model hold no whitespace and      *)
(* trim() leaves them as they are.                                         *)
(***************************************************************************)
DigitChars == <<"0", "1", "2", "3", "4", "5", "6", "7", "8", "9">>

IsDigit(c) == \E i \in 1..10 : DigitChars[i] = c

DigitVal(c) == (CHOOSE i \in 1..10 : DigitChars[i] = c) - 1

AllDigits(s) == \A i \in 1..Len(s) : IsDigit(s[i])

Contains(s, c) == \E i \in 1..Len(s) : s[i] = c

\* str::find: index (from 1) of the first c in s, 0 when there is none
Find(s, c) == IF Contains(s, c) THEN CHOOSE i \in 1..Len(s) : s[i] = c /\ \A j \in 1..(i - 1) : s[j] # c ELSE 0

\* str::replace(c, "")
Remove(s, c) == SelectSeq(s, LAMBDA x : x # c)

\* str::repeat
Repeat(c, n) == [i \in 1..n |-> c]

Reverse(s) == [i \in 1..Len(s) |-> s[Len(s) + 1 - i]]

\* str::trim_end_matches('0')
TrimEndZeros(s) ==
    IF \A i \in 1..Len(s) : s[i] = "0" THEN <<>>
    ELSE SubSeq(s, 1, CHOOSE i \in 1..Len(s) : s[i] # "0" /\ \A j \in (i + 1)..Len(s) : s[j] = "0")

\* the magnitude a string of digits denotes (leading zeros drop out)
DigitsToNat(s) == Trim(Reverse([i \in 1..Len(s) |-> DigitVal(s[i])]))

\* the decimal digits of a magnitude, most significant first; "0" for zero
NatToText(m) ==
    IF m = <<>> THEN <<"0">>
    ELSE Reverse([i \in 1..Len(m) |-> DigitChars[m[i] + 1]])

\* BigInt::to_string
BigToString(x) == (IF x.neg THEN <<"-">> ELSE <<>>) \o NatToText(x.mag)

\* str::parse::<BigInt> (num_bigint): a "-" or a "+", then at least one digit
ParseBigInt(s) ==
    LET StartsWith(t, c) == t # <<>> /\ t[1] = c
        neg == StartsWith(s, "-")
        s1  == IF neg /\ ~StartsWith(Tail(s), "+") THEN Tail(s) ELSE s
        s2  == IF StartsWith(s1, "+") /\ ~StartsWith(Tail(s1), "+") THEN Tail(s1) ELSE s1
    IN  IF s2 = <<>> THEN Err("cannot parse integer from empty string")
        ELSE IF ~AllDigits(s2) THEN Err("invalid digit found in string")
        ELSE Ok(BigInt(neg, DigitsToNat(s2)))

(***************************************************************************)
(* i32: the width of the scale field and of an exponent.                   *)
(***************************************************************************)
I32Max == 2147483647

I32Min == (-I32Max) - 1

AddOverflows(a, b) == (b > 0 /\ a > I32Max - b) \/ (b < 0 /\ a < I32Min - b)

SubOverflows(a, b) == (b < 0 /\ a > I32Max + b) \/ (b > 0 /\ a < I32Min + b)

\* a + b in two's complement (what a build without overflow checks computes)
WrappingAdd(a, b) ==
    IF ~AddOverflows(a, b) THEN a + b
    ELSE IF b > 0 THEN (a - I32Max - 1) + (b - I32Max - 1)
    ELSE (a + I32Max + 1) + (b + I32Max + 1)

\* a - b in two's complement
WrappingSub(a, b) ==
    IF ~SubOverflows(a, b) THEN a - b
    ELSE IF b < 0 THEN (a - I32Max - 1) + (I32Min - b)
    ELSE (a + I32Max + 1) + (I32Max - b + 1)

\* str::parse::<i32>: an optional sign, then digits, within the i32 range
ParseI32(s) ==
    LET neg  == s # <<>> /\ s[1] = "-"
        body == IF s # <<>> /\ (s[1] = "-" \/ s[1] = "+") THEN Tail(s) ELSE s
        mag  == DigitsToNat(body)
    IN  IF body = <<>> \/ ~AllDigits(body) THEN Err("invalid digit found in string")
        ELSE IF neg THEN
            (IF NatLe(mag, NatFromInt(I32Max)) THEN Ok(-NatToInt(mag))
             ELSE IF mag = NatAdd(NatFromInt(I32Max), <<1>>) THEN Ok(I32Min)
             ELSE Err("number too small to fit in target type"))
        ELSE IF NatLe(mag, NatFromInt(I32Max)) THEN Ok(NatToInt(mag))
        ELSE Err("number too large to fit in target type")

\* i32 Display
I32ToText(n) ==
    IF n = I32Min THEN <<"-">> \o NatToText(NatAdd(NatFromInt(I32Max), <<1>>))
    ELSE IF n < 0 THEN <<"-">> \o NatToText(NatFromInt(-n))
    ELSE NatToText(NatFromInt(n))

(***************************************************************************)
(* BigNumber { mantissa: BigInt, scale: i32 }: mantissa * 10^(-scale).     *)
(***************************************************************************)
new(mantissa, scale) == [mantissa |-> mantissa, scale |-> scale]

multiply_by_power_of_10(self, exp) == new(self.mantissa, WrappingSub(self.scale, exp))

from_decimal(s) ==
    LET signed  == s # <<>> /\ (s[1] = "+" \/ s[1] = "-")
        sign    == IF s # <<>> /\ s[1] = "-" THEN -1 ELSE 1
        num_str == IF signed THEN Tail(s) ELSE s
        dot_pos == Find(num_str, ".")
        Signed(m) == IF sign = -1 THEN BigNeg(m) ELSE m
    IN  IF num_str = <<>> THEN Err("Missing digits after sign")
        ELSE IF dot_pos # 0 THEN
            LET rest         == SubSeq(num_str, dot_pos + 1, Len(num_str))
                scale        == Len(num_str) - dot_pos
                mantissa_str == Remove(num_str, ".")
                mantissa     == ParseBigInt(mantissa_str)
            IN  IF Contains(rest, ".") THEN Err("Multiple decimal points")
                ELSE IF mantissa_str = <<>> THEN Err("Missing digits around decimal point")
                ELSE IF ~IsOk(mantissa) THEN Err("Invalid decimal format")
                ELSE Ok(new(Signed(mantissa.val), scale))
        ELSE
            LET mantissa == ParseBigInt(num_str)
            IN  IF ~IsOk(mantissa) THEN Err("Invalid integer format")
                ELSE Ok(new(Signed(mantissa.val), 0))

IsExpMarker(c) == c = "e" \/ c = "E"

\* the regex ^([+-]?\d*\.?\d+)[eE]([+-]?\d+)$ on a text without whitespace:
\* the two captures, or <<>> when the text does not match
ScientificCaptures(s) ==
    LET e_pos    == CHOOSE i \in 1..Len(s) : IsExpMarker(s[i]) /\ \A j \in 1..(i - 1) : ~IsExpMarker(s[j])
        base_str == SubSeq(s, 1, e_pos - 1)
        exp_str  == SubSeq(s, e_pos + 1, Len(s))
        Unsigned(t) == IF t # <<>> /\ (t[1] = "+" \/ t[1] = "-") THEN Tail(t) ELSE t
        b        == Unsigned(base_str)
        dot      == Find(b, ".")
        base_ok  == IF dot = 0 THEN b # <<>> /\ AllDigits(b)
                    ELSE /\ AllDigits(SubSeq(b, 1, dot - 1))
                         /\ dot < Len(b)
                         /\ AllDigits(SubSeq(b, dot + 1, Len(b)))
        x        == Unsigned(exp_str)
        exp_ok   == x # <<>> /\ AllDigits(x)
    IN  IF base_ok /\ exp_ok THEN <<base_str, exp_str>> ELSE <<>>

\* whether from_scientific overflows the i32 scale (scale - exp)
from_scientific_overflows(s) ==
    /\ \E i \in 1..Len(s) : IsExpMarker(s[i])
    /\ ScientificCaptures(s) # <<>>
    /\ LET caps == ScientificCaptures(s)
           exp  == ParseI32(caps[2])
           base == from_decimal(caps[1])
       IN  IsOk(exp) /\ IsOk(base) /\ SubOverflows(base.val.scale, exp.val)

from_scientific(s) ==
    LET caps == ScientificCaptures(s)
    IN  IF caps = <<>> THEN Err("Invalid scientific notation")
        ELSE LET exp  == ParseI32(caps[2])
                 base == from_decimal(caps[1])
             IN  IF ~IsOk(exp) THEN Err("Invalid exponent")
                 ELSE IF ~IsOk(base) THEN base
                 ELSE Ok(multiply_by_power_of_10(base.val, exp.val))

from_str(s) ==
    IF s = <<>> THEN Err("Empty string")
    ELSE IF \E i \in 1..Len(s) : IsExpMarker(s[i]) THEN from_scientific(s)
    ELSE from_decimal(s)

parse_number(s) == from_str(s)

RECURSIVE StripTrailingZeros(_, _)
StripTrailingZeros(mantissa, scale) ==
    IF scale > 0 /\ BigDivisibleBy10(mantissa)
    THEN StripTrailingZeros(BigDiv10(mantissa), scale - 1)
    ELSE new(mantissa, scale)

normalize(self) ==
    IF is_zero(self.mantissa) THEN new(BigZero, 0)
    ELSE StripTrailingZeros(self.mantissa, self.scale)

scale_to(self, target_scale) ==
    IF self.scale = target_scale THEN self
    ELSE LET scale_diff == target_scale - self.scale
         IN  IF scale_diff > 0
             THEN new(BigMul(self.mantissa, BigInt(FALSE, NatPow10(scale_diff))), target_scale)
             ELSE new(BigDiv(self.mantissa, BigInt(FALSE, NatPow10(-scale_diff))), target_scale)

align_scales(self, other) ==
    LET max_scale == Max(self.scale, other.scale)
    IN  <<scale_to(self, max_scale), scale_to(other, max_scale)>>

add(self, other) ==
    Let(align_scales(self, other),
        LAMBDA lr : normalize(new(BigAdd(lr[1].mantissa, lr[2].mantissa), lr[1].scale)))

subtract(self, other) ==
    Let(align_scales(self, other),
        LAMBDA lr : normalize(new(BigSub(lr[1].mantissa, lr[2].mantissa), lr[1].scale)))

\* whether multiply overflows the i32 scale (scale + scale)
multiply_overflows(self, other) == AddOverflows(self.scale, other.scale)

multiply(self, other) ==
    normalize(new(BigMul(self.mantissa, other.mantissa), WrappingAdd(self.scale, other.scale)))

\* whether divide overflows the i32 scale (precision + other.scale - self.scale)
divide_overflows(self, other, precision) ==
    /\ ~is_zero(other.mantissa)
    /\ \/ AddOverflows(precision, other.scale)
       \/ SubOverflows(WrappingAdd(precision, other.scale), self.scale)
       \/ /\ WrappingSub(WrappingAdd(precision, other.scale), self.scale) <= 0
          /\ SubOverflows(self.scale, other.scale)

\* zero divided by zero is zero
divide_zero_by_zero(self, other, precision) ==
    IF is_zero(other.mantissa)
    THEN IF is_zero(self.mantissa) THEN Ok(new(BigZero, 0)) ELSE Err("Division by zero")
    ELSE LET scale_up     == WrappingSub(WrappingAdd(precision, other.scale), self.scale)
             dividend     == IF scale_up > 0
                             THEN BigMul(self.mantissa, BigInt(FALSE, NatPow10(scale_up)))
                             ELSE self.mantissa
             quotient     == BigDiv(dividend, other.mantissa)
             result_scale == IF scale_up > 0 THEN scale_up
                             ELSE WrappingSub(self.scale, other.scale)
         IN  Ok(normalize(new(quotient, result_scale)))

divide(self, other, precision) ==
    IF is_zero(other.mantissa) THEN Err("Division by zero")
    ELSE LET scale_up     == WrappingSub(WrappingAdd(precision, other.scale), self.scale)
             dividend     == IF scale_up > 0
                             THEN BigMul(self.mantissa, BigInt(FALSE, NatPow10(scale_up)))
                             ELSE self.mantissa
             quotient     == BigDiv(dividend, other.mantissa)
             result_scale == IF scale_up > 0 THEN scale_up
                             ELSE WrappingSub(self.scale, other.scale)
         IN  Ok(normalize(new(quotient, result_scale)))

\* the for loop of power: result = result.multiply(self), n times
RECURSIVE MultiplyTimes(_, _, _)
MultiplyTimes(result, self, n) ==
    IF n <= 0 THEN result
    ELSE Let(multiply(result, self), LAMBDA r : MultiplyTimes(r, self, n - 1))

power(self, exponent) ==
    IF exponent.scale > 0 THEN Err("Non-integer exponents not supported")
    ELSE Let(ParseI32(BigToString(exponent.mantissa)),
             LAMBDA exp_int :
                 IF ~IsOk(exp_int) THEN Err("Exponent too large")
                 ELSE IF exp_int.val < 0 THEN Err("Negative exponents not supported")
                 ELSE IF exp_int.val = 0 THEN Ok(new(BigOne, 0))
                 ELSE Ok(normalize(MultiplyTimes(self, self, exp_int.val - 1))))

to_standard_string(self) ==
    IF self.scale <= 0
    THEN BigToString(self.mantissa) \o Repeat("0", -self.scale)
    ELSE LET mantissa_str == BigToString(self.mantissa)
             is_negative  == mantissa_str[1] = "-"
             abs_str      == IF is_negative THEN Tail(mantissa_str) ELSE mantissa_str
             Signed(r)    == IF is_negative THEN <<"-">> \o r ELSE r
         IN  IF self.scale >= Len(abs_str)
             THEN Signed(<<"0", ".">> \o Repeat("0", self.scale - Len(abs_str)) \o abs_str)
             ELSE LET split_pos == Len(abs_str) - self.scale
                  IN  Signed(SubSeq(abs_str, 1, split_pos) \o <<".">>
                             \o SubSeq(abs_str, split_pos + 1, Len(abs_str)))

\* whether to_scientific_notation overflows the i32 exponent (digits - 1 - scale)
to_scientific_overflows(self) ==
    /\ ~is_zero(self.mantissa)
    /\ SubOverflows(Len(self.mantissa.mag) - 1, self.scale)

to_scientific_notation(self) ==
    IF is_zero(self.mantissa) THEN <<"0">>
    ELSE LET mantissa_str == BigToString(self.mantissa)
             is_negative  == mantissa_str[1] = "-"
             significant_digits == IF is_negative THEN Tail(mantissa_str) ELSE mantissa_str
             exponent     == WrappingSub(Len(significant_digits) - 1, self.scale)
             remaining_digits == SubSeq(significant_digits, 2, Min(Len(significant_digits), 11))
             trimmed      == TrimEndZeros(remaining_digits)
             formatted_mantissa ==
                 (IF is_negative THEN <<"-">> ELSE <<>>)
                 \o <<significant_digits[1]>>
                 \o (IF Len(significant_digits) > 1 THEN <<".">> \o trimmed ELSE <<>>)
         IN  formatted_mantissa \o <<"e">> \o I32ToText(exponent)

\* a plain form of exactly max_chars characters is not kept
to_string_with_limit_strict(self, max_chars) ==
    LET standard_form == to_standard_string(self)
    IN  IF Len(standard_form) < max_chars THEN standard_form
        ELSE to_scientific_notation(self)

to_string_with_limit(self, max_chars) ==
    LET standard_form == to_standard_string(self)
    IN  IF Len(standard_form) <= max_chars THEN standard_form
        ELSE to_scientific_notation(self)

DisplayLimit == 25

\* the display limit is that of the scientific mantissa
to_string_short(self) == to_string_with_limit(self, 11)

to_string(self) == to_string_with_limit(self, DisplayLimit)

(***************************************************************************)
(* evaluate_expression (src/src/main.rs): operand and operator stacks.     *)
(***************************************************************************)
\* every operator binds alike
precedence_flat(op) == IF op \in {"+", "-", "*", "/", "^"} THEN 1 ELSE 0

precedence(op) ==
    IF op = "+" \/ op = "-" THEN 1
    ELSE IF op = "*" \/ op = "/" THEN 2
    ELSE IF op = "^" THEN 3
    ELSE 0

DivPrecision == 15

\* the match of apply_operation: a op b
Operate(op, a, b) ==
    IF op = "+" THEN Ok(add(a, b))
    ELSE IF op = "-" THEN Ok(subtract(a, b))
    ELSE IF op = "*" THEN Ok(multiply(a, b))
    ELSE IF op = "/" THEN divide(a, b, DivPrecision)
    ELSE IF op = "^" THEN power(a, b)
    ELSE Err("Unknown operator")

\* the left operand stays on the stack
apply_operation_keeps_left(nums, op) ==
    IF Len(nums) < 2 THEN Err("Not enough operands")
    ELSE LET b == nums[Len(nums)]
             a == nums[Len(nums) - 1]
         IN  Let(Operate(op, a, b),
                 LAMBDA result :
                     IF ~IsOk(result) THEN result
                     ELSE Ok(Append(SubSeq(nums, 1, Len(nums) - 1), result.val)))

\* apply_operation: the operand stack it leaves, or the error it returns
apply_operation(nums, op) ==
    IF Len(nums) < 2 THEN Err("Not enough operands")
    ELSE LET b == nums[Len(nums)]
             a == nums[Len(nums) - 1]
         IN  Let(Operate(op, a, b),
                 LAMBDA result :
                     IF ~IsOk(result) THEN result
                     ELSE Ok(Append(SubSeq(nums, 1, Len(nums) - 2), result.val)))

\* the record of one apply_operation call: the stack before it and what it returned
Applied(nums, op, r) == [op |-> op, before |-> nums, result |-> r]

IsOperatorToken(token) ==
    /\ Len(token) = 1
    /\ token[1] \in {"+", "-", "*", "/", "^"}

\* the while loop run when operator op arrives: st = [numbers, operators, log, err]
RECURSIVE PopWhile(_, _)
PopWhile(st, op) ==
    IF st.operators = <<>> THEN st
    ELSE LET last_op == st.operators[Len(st.operators)]
         IN  IF precedence(last_op) >= precedence(op)
             THEN Let(apply_operation(st.numbers, last_op),
                      LAMBDA r :
                          IF ~IsOk(r)
                          THEN [st EXCEPT !.log = Append(st.log, Applied(st.numbers, last_op, r)),
                                          !.err = r]
                          ELSE PopWhile([numbers   |-> r.val,
                                         operators |-> SubSeq(st.operators, 1, Len(st.operators) - 1),
                                         log       |-> Append(st.log, Applied(st.numbers, last_op, r)),
                                         err       |-> st.err], op))
             ELSE st

(***************************************************************************)
(* The inputs of the model.                                                *)
(***************************************************************************)
MaxOperands == 3

MaxTokens == 4

MaxMantissa == 4

MaxScale == 1

MaxPrecision == 2

OperatorTokens == {<<"+">>, <<"-">>, <<"*">>, <<"/">>, <<"^">>}

NumberTokens == {<<"0">>, <<"3">>, <<"0", ".", "5">>}

\* tokens of any order are drawn from these
AnyTokens == {<<"0">>, <<"3">>, <<"+">>, <<"/">>, <<"^">>, <<"x">>}

\* operand, then operator/operand pairs
RECURSIVE Infix(_)
Infix(n) ==
    IF n = 1 THEN { <<t>> : t \in NumberTokens }
    ELSE { e \o <<o, t>> : e \in Infix(n - 1), o \in OperatorTokens, t \in NumberTokens }

SeqsOf(S, n) == [1..n -> S]

\* the scenarios of the specification
Scenarios ==
    { <<>>,
      <<<<"2">>, <<"+">>, <<"3">>>>,
      <<<<"1", "0">>, <<"/">>, <<"4">>>>,
      <<<<"2">>, <<"^">>, <<"1", "0">>>>,
      <<<<"5">>, <<"/">>, <<"0">>>>,
      <<<<"2">>, <<"+">>, <<"+">>, <<"3">>>>,
      <<<<"1", ".", "5", "e", "3">>>> }

\* a number, two operators, a number
TwoOperators ==
    { <<a, o1, o2, b>> : a \in NumberTokens, o1 \in OperatorTokens,
                         o2 \in OperatorTokens, b \in NumberTokens }

Expressions ==
    Scenarios
    \cup TwoOperators
    \cup UNION { Infix(n) : n \in 1..MaxOperands }
    \cup UNION { SeqsOf(AnyTokens, n) : n \in 1..MaxTokens }

Scales == (-MaxScale)..MaxScale

Values == { new(BigFromInt(m), sc) : m \in (-MaxMantissa)..MaxMantissa, sc \in Scales }

Precisions == 0..MaxPrecision \cup {DivPrecision}

\* Calculator::new()
CalculatorNew ==
    [current_input   |-> <<"0">>,
     previous_result |-> None,
     history         |-> <<>>,
     show_history    |-> FALSE,
     history_index   |-> 0]

Init ==
    /\ calculator = CalculatorNew
    /\ pc = "idle"
    /\ fn = "none"
    /\ args = <<>>
    /\ ret = Ok(<<>>)
    /\ tokens = <<>>
    /\ pos = 1
    /\ numbers = <<>>
    /\ operators = <<>>
    /\ applied = <<>>

(***************************************************************************)
(* evaluate_expression, one action per early return and per loop step.     *)
(***************************************************************************)
Return(r) ==
    /\ pc' = "done"
    /\ ret' = r

\* tokens.is_empty(): Ok("0")
EvaluateEmpty ==
    /\ pc = "idle"
    /\ fn' = "evaluate_expression"
    /\ tokens' = <<>>
    /\ args' = <<tokens'>>
    /\ Return(Ok(<<"0">>))
    /\ UNCHANGED <<pos, numbers, operators, applied>>
    /\ UNCHANGED calculator

\* tokens.len() == 1: parse_number(tokens[0]).map(|bd| bd.to_string())
EvaluateSingle ==
    /\ pc = "idle"
    /\ \E expr \in Expressions :
        /\ Len(expr) = 1
        /\ fn' = "evaluate_expression"
        /\ tokens' = expr
        /\ args' = <<expr>>
        /\ \E r \in {parse_number(expr[1])} :
               Return(IF IsOk(r) THEN Ok(to_string(r.val)) ELSE r)
    /\ UNCHANGED <<pos, numbers, operators, applied>>
    /\ UNCHANGED calculator

\* two or more tokens: the stacks are created and the for loop starts
EvaluateBegin ==
    /\ pc = "idle"
    /\ \E expr \in Expressions :
        /\ Len(expr) >= 2
        /\ fn' = "evaluate_expression"
        /\ tokens' = expr
        /\ args' = <<expr>>
    /\ pc' = "loop"
    /\ pos' = 1
    /\ numbers' = <<>>
    /\ operators' = <<>>
    /\ applied' = <<>>
    /\ UNCHANGED ret
    /\ UNCHANGED calculator

\* for token in tokens: the token parses as a number
TokenNumber ==
    /\ pc = "loop"
    /\ pos <= Len(tokens)
    /\ \E num \in {parse_number(tokens[pos])} :
        /\ IsOk(num)
        /\ numbers' = Append(numbers, num.val)
    /\ pos' = pos + 1
    /\ UNCHANGED <<pc, fn, args, ret, tokens, operators, applied>>
    /\ UNCHANGED calculator

\* for token in tokens: the token is an operator
TokenOperator ==
    /\ pc = "loop"
    /\ pos <= Len(tokens)
    /\ ~IsOk(parse_number(tokens[pos]))
    /\ IsOperatorToken(tokens[pos])
    /\ \E op \in {tokens[pos][1]} :
       \E st \in {PopWhile([numbers |-> numbers, operators |-> operators,
                             log |-> applied, err |-> Ok(<<>>)], op)} :
           /\ applied' = st.log
           /\ IF ~IsOk(st.err)
              THEN /\ Return(st.err)
                   /\ UNCHANGED <<pos, numbers, operators>>
              ELSE /\ numbers' = st.numbers
                   /\ operators' = Append(st.operators, op)
                   /\ pos' = pos + 1
                   /\ UNCHANGED <<pc, ret>>
    /\ UNCHANGED <<fn, args, tokens>>
    /\ UNCHANGED calculator

\* for token in tokens: neither a number nor an operator
TokenInvalid ==
    /\ pc = "loop"
    /\ pos <= Len(tokens)
    /\ ~IsOk(parse_number(tokens[pos]))
    /\ ~IsOperatorToken(tokens[pos])
    /\ Return(Err("Invalid operator"))
    /\ UNCHANGED <<fn, args, tokens, pos, numbers, operators, applied>>
    /\ UNCHANGED calculator

\* while let Some(op) = operators.pop(): one iteration
Drain ==
    /\ pc = "loop"
    /\ pos > Len(tokens)
    /\ operators # <<>>
    /\ \E op \in {operators[Len(operators)]} :
       \E r \in {apply_operation(numbers, op)} :
           /\ operators' = SubSeq(operators, 1, Len(operators) - 1)
           /\ applied' = Append(applied, Applied(numbers, op, r))
           /\ IF ~IsOk(r)
              THEN /\ Return(r)
                   /\ UNCHANGED numbers
              ELSE /\ numbers' = r.val
                   /\ UNCHANGED <<pc, ret>>
    /\ UNCHANGED <<fn, args, tokens, pos>>
    /\ UNCHANGED calculator

\* the operators are used up: numbers.len() != 1 is an error
Finish ==
    /\ pc = "loop"
    /\ pos > Len(tokens)
    /\ operators = <<>>
    /\ IF Len(numbers) # 1
       THEN /\ Return(Err("Invalid expression"))
            /\ UNCHANGED numbers
       ELSE /\ Return(Ok(to_string_with_limit(numbers[1], DisplayLimit)))
            /\ numbers' = <<>>
    /\ UNCHANGED <<fn, args, tokens, pos, operators, applied>>
    /\ UNCHANGED calculator

(***************************************************************************)
(* Direct calls of the arithmetic of BigNumber.                            *)
(***************************************************************************)
Divide ==
    /\ pc = "idle"
    /\ \E a \in Values, b \in Values, precision \in Precisions :
        /\ args' = <<a, b, precision>>
        /\ ret' = divide(a, b, precision)
    /\ fn' = "divide"
    /\ pc' = "done"
    /\ UNCHANGED <<tokens, pos, numbers, operators, applied>>
    /\ UNCHANGED calculator

Power ==
    /\ pc = "idle"
    /\ \E base \in Values, exponent \in Values :
        /\ args' = <<base, exponent>>
        /\ ret' = power(base, exponent)
    /\ fn' = "power"
    /\ pc' = "done"
    /\ UNCHANGED <<tokens, pos, numbers, operators, applied>>
    /\ UNCHANGED calculator

Next ==
    \/ EvaluateEmpty
    \/ EvaluateSingle
    \/ EvaluateBegin
    \/ TokenNumber
    \/ TokenOperator
    \/ TokenInvalid
    \/ Drain
    \/ Finish
    \/ Divide
    \/ Power

Spec == Init /\ [][Next]_vars

(***************************************************************************)
(* Addition of BigNumber values, called directly.                          *)
(***************************************************************************)
\* add(a, b)
Add ==
    /\ pc = "idle"
    /\ \E a \in Values, b \in Values \cup {parse_number(<<"0">>).val} :
        /\ args' = <<a, b>>
        /\ ret' = Ok(add(a, b))
    /\ fn' = "add"
    /\ pc' = "done"
    /\ UNCHANGED <<tokens, pos, numbers, operators, applied>>
    /\ UNCHANGED calculator

\* add(add(a, b), c) and add(a, add(b, c))
AddThree ==
    /\ pc = "idle"
    /\ \E a \in Values, b \in Values, c \in Values :
        /\ args' = <<a, b, c>>
        /\ \E ab \in {add(a, b)}, bc \in {add(b, c)} :
               ret' = Ok(<<add(ab, c), add(a, bc)>>)
    /\ fn' = "add_three"
    /\ pc' = "done"
    /\ UNCHANGED <<tokens, pos, numbers, operators, applied>>
    /\ UNCHANGED calculator

NextAdd ==
    \/ Add
    \/ AddThree

SpecAdd == Init /\ [][NextAdd]_vars

(***************************************************************************)
(* Formatting, and parsing followed by formatting, called directly.        *)
(***************************************************************************)
MaxChars == 4

MaxFormatScale == 3

MaxDigits == 2

FormatValues ==
    { new(BigFromInt(m), sc) : m \in (-MaxMantissa)..MaxMantissa \cup {10, 120, -120},
                               sc \in (-MaxFormatScale)..MaxFormatScale }

\* the digit strings of 1..MaxDigits digits
DigitStrings == UNION { SeqsOf({"0", "7"}, n) : n \in 1..MaxDigits }

\* fractional digits: short ones, and ones that bring the text to the display limit
Fractions ==
    { Repeat("0", k) \o d : k \in {0} \cup (DisplayLimit - 5)..(DisplayLimit - 2),
                            d \in DigitStrings }

\* optional sign, integer digits, optional fractional digits
DecimalTexts ==
    { sign \o int \o frac :
        sign \in {<<>>, <<"+">>, <<"-">>},
        int  \in DigitStrings,
        frac \in {<<>>} \cup { <<".">> \o f : f \in Fractions } }

\* to_string_with_limit(max_chars)
Format ==
    /\ pc = "idle"
    /\ \E x \in FormatValues, max_chars \in 0..MaxChars :
        /\ args' = <<x, max_chars>>
        /\ ret' = Ok(to_string_with_limit(x, max_chars))
    /\ fn' = "to_string_with_limit"
    /\ pc' = "done"
    /\ UNCHANGED <<tokens, pos, numbers, operators, applied>>
    /\ UNCHANGED calculator

\* evaluate_expression on one token that is a plain decimal text
EvaluateDecimal ==
    /\ pc = "idle"
    /\ \E s \in DecimalTexts :
        /\ fn' = "evaluate_expression"
        /\ tokens' = <<s>>
        /\ args' = <<tokens'>>
        /\ \E r \in {parse_number(s)} :
               Return(IF IsOk(r) THEN Ok(to_string(r.val)) ELSE r)
    /\ UNCHANGED <<pos, numbers, operators, applied>>
    /\ UNCHANGED calculator

NextText ==
    \/ Format
    \/ EvaluateDecimal

SpecText == Init /\ [][NextText]_vars

(***************************************************************************)
(* Scales at the ends of the i32 range.  An i32 overflow panics in a build *)
(* with overflow checks and wraps in a build without them: both outcomes   *)
(* are successors.                                                         *)
(***************************************************************************)
MaxScaleUp == 20

\* what a call can return: on overflow a panic or the wrapped result
Outcomes(overflows, panic, r) == IF overflows THEN {Fault(panic), r} ELSE {r}

ScaleBases == {<<"1">>, <<"1", "0">>, <<"0", ".", "1">>, <<"-", "1">>}

ScaleExponents ==
    { <<"e">> \o x : x \in { <<"0">>, <<"1">>, <<"-", "1">>,
                             I32ToText(I32Max), I32ToText(I32Max - 1),
                             I32ToText(I32Min), I32ToText(I32Min + 1),
                             NatToText(NatAdd(NatFromInt(I32Max), <<1>>)) } }

ScaleTexts == { b \o e : b \in ScaleBases, e \in ScaleExponents }

ScaleValues ==
    { new(BigFromInt(m), sc) : m \in {0, 1, 10},
                               sc \in {I32Min, I32Min + 1, -1, 0, 1, I32Max - 1, I32Max} }

\* parse_number(s)
ParseNumber ==
    /\ pc = "idle"
    /\ \E s \in ScaleTexts :
        /\ args' = <<s>>
        /\ ret' \in Outcomes(from_scientific_overflows(s),
                             "attempt to subtract with overflow", parse_number(s))
    /\ fn' = "parse_number"
    /\ pc' = "done"
    /\ UNCHANGED <<tokens, pos, numbers, operators, applied>>
    /\ UNCHANGED calculator

\* a.multiply(b)
Multiply ==
    /\ pc = "idle"
    /\ \E a \in ScaleValues, b \in ScaleValues :
        /\ args' = <<a, b>>
        /\ ret' \in Outcomes(multiply_overflows(a, b),
                             "attempt to add with overflow", Ok(multiply(a, b)))
    /\ fn' = "multiply"
    /\ pc' = "done"
    /\ UNCHANGED <<tokens, pos, numbers, operators, applied>>
    /\ UNCHANGED calculator

\* a.divide(b, precision), where the power of ten that scales the dividend is at
\* most 10^MaxScaleUp
DivideScales ==
    /\ pc = "idle"
    /\ \E a \in ScaleValues, b \in ScaleValues, precision \in {0, DivPrecision} :
        /\ WrappingSub(WrappingAdd(precision, b.scale), a.scale) <= MaxScaleUp
        /\ args' = <<a, b, precision>>
        /\ ret' \in Outcomes(divide_overflows(a, b, precision),
                             "attempt to add with overflow", divide(a, b, precision))
    /\ fn' = "divide"
    /\ pc' = "done"
    /\ UNCHANGED <<tokens, pos, numbers, operators, applied>>
    /\ UNCHANGED calculator

\* x.to_scientific_notation()
Scientific ==
    /\ pc = "idle"
    /\ \E x \in ScaleValues :
        /\ args' = <<x>>
        /\ ret' \in Outcomes(to_scientific_overflows(x),
                             "attempt to subtract with overflow",
                             Ok(to_scientific_notation(x)))
    /\ fn' = "to_scientific_notation"
    /\ pc' = "done"
    /\ UNCHANGED <<tokens, pos, numbers, operators, applied>>
    /\ UNCHANGED calculator

NextScale ==
    \/ ParseNumber
    \/ Multiply
    \/ DivideScales
    \/ Scientific

SpecScale == Init /\ [][NextScale]_vars

(***************************************************************************)
(* evaluate_expression as one function of the expression text.             *)
(***************************************************************************)
\* str::split_whitespace: the maximal runs of characters other than the space
RECURSIVE split_whitespace(_)
split_whitespace(s) ==
    IF s = <<>> THEN <<>>
    ELSE IF s[1] = " " THEN split_whitespace(Tail(s))
    ELSE LET n == CHOOSE k \in 1..Len(s) :
                      /\ \A j \in 1..k : s[j] # " "
                      /\ k = Len(s) \/ s[k + 1] = " "
         IN  <<SubSeq(s, 1, n)>> \o split_whitespace(SubSeq(s, n + 1, Len(s)))

\* the for loop over the tokens, from token i: st = [numbers, operators, log, err]
RECURSIVE ForTokens(_, _, _)
ForTokens(toks, i, st) ==
    IF i > Len(toks) \/ ~IsOk(st.err) THEN st
    ELSE Let(parse_number(toks[i]),
             LAMBDA num :
                 IF IsOk(num)
                 THEN ForTokens(toks, i + 1, [st EXCEPT !.numbers = Append(@, num.val)])
                 ELSE IF IsOperatorToken(toks[i])
                 THEN Let(PopWhile(st, toks[i][1]),
                          LAMBDA after :
                              IF ~IsOk(after.err) THEN after
                              ELSE ForTokens(toks, i + 1,
                                             [after EXCEPT !.operators = Append(@, toks[i][1])]))
                 ELSE [st EXCEPT !.err = Err("Invalid operator")])

\* the while loop that pops and applies the operators left on the stack
RECURSIVE DrainOperators(_)
DrainOperators(st) ==
    IF st.operators = <<>> \/ ~IsOk(st.err) THEN st
    ELSE Let(apply_operation(st.numbers, st.operators[Len(st.operators)]),
             LAMBDA r :
                 IF ~IsOk(r) THEN [st EXCEPT !.err = r]
                 ELSE DrainOperators([st EXCEPT !.numbers = r.val,
                                                !.operators = SubSeq(@, 1, Len(@) - 1)]))

\* evaluate_expression on the tokens of the expression
EvaluateTokens(toks) ==
    IF toks = <<>> THEN Ok(<<"0">>)
    ELSE IF Len(toks) = 1
    THEN Let(parse_number(toks[1]),
             LAMBDA r : IF IsOk(r) THEN Ok(to_string(r.val)) ELSE r)
    ELSE Let(DrainOperators(ForTokens(toks, 1, [numbers |-> <<>>, operators |-> <<>>,
                                                log |-> <<>>, err |-> Ok(<<>>)])),
             LAMBDA st :
                 IF ~IsOk(st.err) THEN st.err
                 ELSE IF Len(st.numbers) # 1 THEN Err("Invalid expression")
                 ELSE Ok(to_string_with_limit(st.numbers[1], DisplayLimit)))

evaluate_expression(expr) == Let(split_whitespace(expr), LAMBDA toks : EvaluateTokens(toks))

(***************************************************************************)
(* The Calculator (src/src/main.rs): the messages of the user interface.   *)
(* A String is a text; of an error message the model keeps the fixed part, *)
(* as Err does.                                                            *)
(***************************************************************************)
\* the characters of an error message
MessageText(msg) ==
    CASE msg = "Division by zero" ->
           <<"D", "i", "v", "i", "s", "i", "o", "n", " ", "b", "y", " ", "z", "e", "r", "o">>
      [] msg = "Empty string" ->
           <<"E", "m", "p", "t", "y", " ", "s", "t", "r", "i", "n", "g">>
      [] msg = "Exponent too large" ->
           <<"E", "x", "p", "o", "n", "e", "n", "t", " ", "t", "o", "o", " ", "l", "a", "r", "g", "e">>
      [] msg = "Invalid decimal format" ->
           <<"I", "n", "v", "a", "l", "i", "d", " ", "d", "e", "c", "i", "m", "a", "l", " ", "f", "o", "r", "m", "a", "t">>
      [] msg = "Invalid exponent" ->
           <<"I", "n", "v", "a", "l", "i", "d", " ", "e", "x", "p", "o", "n", "e", "n", "t">>
      [] msg = "Invalid expression" ->
           <<"I", "n", "v", "a", "l", "i", "d", " ", "e", "x", "p", "r", "e", "s", "s", "i", "o", "n">>
      [] msg = "Invalid integer format" ->
           <<"I", "n", "v", "a", "l", "i", "d", " ", "i", "n", "t", "e", "g", "e", "r", " ", "f", "o", "r", "m", "a", "t">>
      [] msg = "Invalid operator" ->
           <<"I", "n", "v", "a", "l", "i", "d", " ", "o", "p", "e", "r", "a", "t", "o", "r">>
      [] msg = "Invalid scientific notation" ->
           <<"I", "n", "v", "a", "l", "i", "d", " ", "s", "c", "i", "e", "n", "t", "i", "f", "i", "c", " ", "n", "o", "t", "a", "t", "i", "o", "n">>
      [] msg = "Missing digits after sign" ->
           <<"M", "i", "s", "s", "i", "n", "g", " ", "d", "i", "g", "i", "t", "s", " ", "a", "f", "t", "e", "r", " ", "s", "i", "g", "n">>
      [] msg = "Missing digits around decimal point" ->
           <<"M", "i", "s", "s", "i", "n", "g", " ", "d", "i", "g", "i", "t", "s", " ", "a", "r", "o", "u", "n", "d", " ", "d", "e", "c", "i", "m", "a", "l", " ", "p", "o", "i", "n", "t">>
      [] msg = "Multiple decimal points" ->
           <<"M", "u", "l", "t", "i", "p", "l", "e", " ", "d", "e", "c", "i", "m", "a", "l", " ", "p", "o", "i", "n", "t", "s">>
      [] msg = "Negative exponents not supported" ->
           <<"N", "e", "g", "a", "t", "i", "v", "e", " ", "e", "x", "p", "o", "n", "e", "n", "t", "s", " ", "n", "o", "t", " ", "s", "u", "p", "p", "o", "r", "t", "e", "d">>
      [] msg = "Non-integer exponents not supported" ->
           <<"N", "o", "n", "-", "i", "n", "t", "e", "g", "e", "r", " ", "e", "x", "p", "o", "n", "e", "n", "t", "s", " ", "n", "o", "t", " ", "s", "u", "p", "p", "o", "r", "t", "e", "d">>
      [] msg = "Not enough operands" ->
           <<"N", "o", "t", " ", "e", "n", "o", "u", "g", "h", " ", "o", "p", "e", "r", "a", "n", "d", "s">>
      [] msg = "Unknown operator" ->
           <<"U", "n", "k", "n", "o", "w", "n", " ", "o", "p", "e", "r", "a", "t", "o", "r">>

ErrorPrefix == <<"E", "r", "r", "o", "r", ":">>

OperatorChars == {"+", "-", "*", "/", "^"}

starts_with(s, prefix) == Len(s) >= Len(prefix) /\ SubSeq(s, 1, Len(prefix)) = prefix

\* str::trim_end
trim_end(s) ==
    IF \A i \in 1..Len(s) : s[i] = " " THEN <<>>
    ELSE SubSeq(s, 1, CHOOSE i \in 1..Len(s) : s[i] # " " /\ \A j \in (i + 1)..Len(s) : s[j] = " ")

\* the operators and spaces at the end of the text are popped
PopOperatorsAndSpaces(s) ==
    IF \A i \in 1..Len(s) : s[i] \in OperatorChars \cup {" "} THEN <<>>
    ELSE SubSeq(s, 1, CHOOSE i \in 1..Len(s) :
                          /\ s[i] \notin OperatorChars \cup {" "}
                          /\ \A j \in (i + 1)..Len(s) : s[j] \in OperatorChars \cup {" "})

HistoryEntry(input, output, is_error) ==
    [input |-> input, output |-> output, is_error |-> is_error]

HistoryLimit == 50

\* the oldest entry is never removed
add_to_history_unbounded(self, input, output, is_error) ==
    [self EXCEPT !.history = Append(@, HistoryEntry(input, output, is_error))]

\* add_to_history: push, then keep only the last 50 calculations
add_to_history(self, input, output, is_error) ==
    Let(Append(self.history, HistoryEntry(input, output, is_error)),
        LAMBDA pushed :
            [self EXCEPT !.history = IF Len(pushed) > HistoryLimit THEN Tail(pushed)
                                     ELSE pushed])

\* self.history[entry_idx], entry_idx counted from 0: a Fault outside the bounds
HistoryAt(self, entry_idx) ==
    IF entry_idx >= 0 /\ entry_idx < Len(self.history)
    THEN Ok(self.history[entry_idx + 1])
    ELSE Fault("index out of bounds")

Calculate(self) ==
    Let(evaluate_expression(self.current_input),
        LAMBDA result :
            IF IsOk(result)
            THEN [add_to_history(self, self.current_input, result.val, FALSE)
                     EXCEPT !.previous_result = Some(result.val),
                            !.current_input = result.val,
                            !.history_index = 0]
            ELSE Let(MessageText(result.val),
                     LAMBDA e :
                         [add_to_history(self, self.current_input, e, TRUE)
                             EXCEPT !.current_input = ErrorPrefix \o <<" ">> \o e,
                                    !.history_index = 0]))

Clear(self) ==
    [self EXCEPT !.current_input = <<"0">>, !.previous_result = None, !.history_index = 0]

Backspace(self) ==
    IF Len(self.current_input) > 1 /\ ~starts_with(self.current_input, ErrorPrefix)
    THEN [self EXCEPT !.current_input = SubSeq(@, 1, Len(@) - 1)]
    ELSE [self EXCEPT !.current_input = <<"0">>]

AddDigit(self, digit) ==
    IF starts_with(self.current_input, ErrorPrefix) \/ self.current_input = <<"0">>
    THEN [self EXCEPT !.current_input = <<digit>>]
    ELSE [self EXCEPT !.current_input = Append(@, digit)]

AddOperator(self, op) ==
    IF starts_with(self.current_input, ErrorPrefix)
    THEN [self EXCEPT !.current_input = <<"0", " ", op, " ">>]
    ELSE LET trimmed == trim_end(self.current_input)
         IN  IF trimmed # <<>> /\ trimmed[Len(trimmed)] \in OperatorChars
             THEN [self EXCEPT !.current_input =
                                   PopOperatorsAndSpaces(trimmed) \o <<" ", op, " ">>]
             ELSE [self EXCEPT !.current_input = @ \o <<" ", op, " ">>]

AddDecimal(self) ==
    IF starts_with(self.current_input, ErrorPrefix)
    THEN [self EXCEPT !.current_input = <<"0", ".">>]
    ELSE LET parts == split_whitespace(self.current_input)
         IN  IF parts = <<>> THEN self
             ELSE LET last_part == parts[Len(parts)]
                  IN  IF \E i \in 1..Len(last_part) : last_part[i] \in {".", "e", "E"}
                      THEN self
                      ELSE IF \A i \in 1..Len(last_part) : last_part[i] \in OperatorChars
                      THEN [self EXCEPT !.current_input = @ \o <<"0", ".">>]
                      ELSE [self EXCEPT !.current_input = Append(@, ".")]

AddScientificE(self) ==
    IF starts_with(self.current_input, ErrorPrefix)
    THEN [self EXCEPT !.current_input = <<"0", "e">>]
    ELSE LET parts == split_whitespace(self.current_input)
         IN  IF parts = <<>> THEN self
             ELSE LET last_part == parts[Len(parts)]
                  IN  IF \E i \in 1..Len(last_part) : last_part[i] \in {"e", "E"}
                      THEN self
                      ELSE IF \A i \in 1..Len(last_part) : last_part[i] \in OperatorChars
                      THEN [self EXCEPT !.current_input = @ \o <<"1", "e">>]
                      ELSE [self EXCEPT !.current_input = Append(@, "e")]

ToggleSign(self) ==
    IF starts_with(self.current_input, ErrorPrefix) THEN self
    ELSE IF Len(split_whitespace(self.current_input)) # 1 THEN self
    ELSE IF starts_with(self.current_input, <<"-">>) /\ self.current_input # <<"-">>
    THEN [self EXCEPT !.current_input = Tail(@)]
    ELSE IF self.current_input # <<"0">> /\ self.current_input # <<>>
    THEN [self EXCEPT !.current_input = <<"-">> \o @]
    ELSE self

ToggleHistory(self) == [self EXCEPT !.show_history = ~@]

ClearHistory(self) == [self EXCEPT !.history = <<>>, !.history_index = 0]

\* a Result: the Calculator after the message, or the Fault of the history access
NavigateHistoryPrevious(self) ==
    IF self.history # <<>> /\ self.history_index < Len(self.history)
    THEN LET history_index == self.history_index + 1
             entry         == HistoryAt(self, Len(self.history) - history_index)
         IN  IF ~IsOk(entry) THEN entry
             ELSE Ok([self EXCEPT !.history_index = history_index,
                                  !.current_input = entry.val.input])
    ELSE Ok(self)

NavigateHistoryNext(self) ==
    IF self.history_index > 0
    THEN LET history_index == self.history_index - 1
             entry         == HistoryAt(self, Len(self.history) - history_index)
         IN  IF history_index = 0
             THEN Ok([self EXCEPT !.history_index = 0,
                                  !.current_input = IF self.previous_result = None THEN <<"0">>
                                                    ELSE self.previous_result.val])
             ELSE IF ~IsOk(entry) THEN entry
             ELSE Ok([self EXCEPT !.history_index = history_index,
                                  !.current_input = entry.val.input])
    ELSE Ok(self)

\* Calculator::update: the Calculator after the message, or the Fault that ends the program
update(self, message) ==
    CASE message[1] = "InputChanged" -> Ok([self EXCEPT !.current_input = message[2]])
      [] message[1] = "Calculate" -> Ok(Calculate(self))
      [] message[1] = "Clear" -> Ok(Clear(self))
      [] message[1] = "Backspace" -> Ok(Backspace(self))
      [] message[1] = "AddDigit" -> Ok(AddDigit(self, message[2]))
      [] message[1] = "AddOperator" -> Ok(AddOperator(self, message[2]))
      [] message[1] = "AddDecimal" -> Ok(AddDecimal(self))
      [] message[1] = "AddScientificE" -> Ok(AddScientificE(self))
      [] message[1] = "ToggleSign" -> Ok(ToggleSign(self))
      [] message[1] = "ToggleHistory" -> Ok(ToggleHistory(self))
      [] message[1] = "ClearHistory" -> Ok(ClearHistory(self))
      [] message[1] = "NavigateHistoryPrevious" -> NavigateHistoryPrevious(self)
      [] message[1] = "NavigateHistoryNext" -> NavigateHistoryNext(self)

(***************************************************************************)
(* The messages, sent in any order to the Calculator.  A key is pressed    *)
(* only on a short input and before the first calculation of a history,    *)
(* and a history repeats its entries after the first MaxVaried.            *)
(***************************************************************************)
MaxInput == 1

MaxVaried == 2

DigitKeys == {"1"}

OperatorKeys == {"+"}

\* the texts typed into the input field
InputTexts == { <<"5", " ", "/", " ", "0">>, <<"1", " ", "*", " ", "1">> }

\* the program runs, and the input may be edited
Editable ==
    /\ pc = "idle"
    /\ calculator.history = <<>>
    /\ \/ Len(calculator.current_input) <= MaxInput
       \/ starts_with(calculator.current_input, ErrorPrefix)

\* the entries after the first MaxVaried repeat the entry before them
Repeating(history) ==
    \A i \in (MaxVaried + 1)..Len(history) : history[i] = history[i - 1]

\* the messages after which history_index is 0
Resetting == {"Calculate", "Clear", "ClearHistory"}

\* update(message) is called: fn names a resetting message, args holds the number
\* of history entries at the call, and a Fault ends the program; a calculation is
\* made when the history it leaves is a repeating one
Send(message) ==
    /\ \E r \in {update(calculator, message)} :
        /\ message[1] = "Calculate" => IsOk(r) /\ Repeating(r.val.history)
        /\ IF IsOk(r)
           THEN calculator' = r.val /\ UNCHANGED <<pc, ret>>
           ELSE ret' = r /\ pc' = "done" /\ UNCHANGED calculator
    /\ fn' = (IF message[1] \in Resetting THEN message[1] ELSE "update")
    /\ args' = <<Len(calculator.history)>>
    /\ UNCHANGED <<tokens, pos, numbers, operators, applied>>

MessageInputChanged ==
    /\ Editable
    /\ \E input \in InputTexts : Send(<<"InputChanged", input>>)

MessageCalculate ==
    /\ pc = "idle"
    /\ Send(<<"Calculate">>)

MessageClear ==
    /\ pc = "idle"
    /\ Send(<<"Clear">>)

MessageBackspace == Editable /\ Send(<<"Backspace">>)

MessageAddDigit ==
    /\ Editable
    /\ \E digit \in DigitKeys : Send(<<"AddDigit", digit>>)

MessageAddOperator ==
    /\ Editable
    /\ \E op \in OperatorKeys : Send(<<"AddOperator", op>>)

MessageAddDecimal == Editable /\ Send(<<"AddDecimal">>)

MessageAddScientificE == Editable /\ Send(<<"AddScientificE">>)

MessageToggleSign == Editable /\ Send(<<"ToggleSign">>)

MessageToggleHistory ==
    /\ pc = "idle"
    /\ Send(<<"ToggleHistory">>)

MessageClearHistory ==
    /\ pc = "idle"
    /\ Send(<<"ClearHistory">>)

MessageNavigateHistoryPrevious ==
    /\ pc = "idle"
    /\ Send(<<"NavigateHistoryPrevious">>)

MessageNavigateHistoryNext ==
    /\ pc = "idle"
    /\ Send(<<"NavigateHistoryNext">>)

NextCalculator ==
    \/ MessageInputChanged
    \/ MessageCalculate
    \/ MessageClear
    \/ MessageBackspace
    \/ MessageAddDigit
    \/ MessageAddOperator
    \/ MessageAddDecimal
    \/ MessageAddScientificE
    \/ MessageToggleSign
    \/ MessageToggleHistory
    \/ MessageClearHistory
    \/ MessageNavigateHistoryPrevious
    \/ MessageNavigateHistoryNext

SpecCalculator == Init /\ [][NextCalculator]_vars

(***************************************************************************)
(* Division: the quotient against exact rational arithmetic.               *)
(***************************************************************************)
\* |x| * 10^k as a magnitude
ScaledMag(x, k) == NatShift(x.mag, k)

\* q is a/b truncated toward zero at precision decimal places:
\* |q| <= |a/b|, |a/b| - |q| < 10^(-precision), and q is zero or has the sign of a/b.
\* Both sides are multiplied by |b.mantissa| * 10^shift so that only whole numbers compare.
TruncatedQuotient(a, b, precision, q) ==
    LET lo    == Min(Min(b.scale, a.scale - q.scale), a.scale - precision)
        shift == IF lo < 0 THEN -lo ELSE 0
        exact == ScaledMag(a.mantissa, b.scale + shift)
        got   == ScaledMag(BigMul(q.mantissa, b.mantissa), a.scale - q.scale + shift)
        unit  == ScaledMag(b.mantissa, a.scale - precision + shift)
    IN  /\ NatLe(got, exact)
        /\ NatLt(NatSub(exact, got), unit)
        /\ \/ is_zero(q.mantissa)
           \/ q.mantissa.neg = (a.mantissa.neg # b.mantissa.neg)

\* C1: for every dividend and every divisor with a non-zero mantissa, whatever the
\* scales, divide returns the exact quotient truncated toward zero to the requested
\* precision; evaluating "10 / 4" gives "2.5".
C1_DivideExact ==
    /\ (pc = "done" /\ fn = "divide" /\ ~is_zero(args[2].mantissa))
           => /\ IsOk(ret)
              /\ TruncatedQuotient(args[1], args[2], args[3], ret.val)
    /\ (pc = "done" /\ fn = "evaluate_expression"
           /\ tokens = <<<<"1", "0">>, <<"/">>, <<"4">>>>)
           => ret = Ok(<<"2", ".", "5">>)

(***************************************************************************)
(* Precedence and associativity: the value of an infix expression.         *)
(***************************************************************************)
\* operand, then operator/operand pairs, at least one pair
WellFormed(e) ==
    /\ Len(e) >= 3
    /\ Len(e) % 2 = 1
    /\ \A i \in 1..Len(e) :
        IF i % 2 = 1 THEN IsOk(parse_number(e[i])) ELSE IsOperatorToken(e[i])

\* the precedence table as the specification states it
StatedPrecedence(op) ==
    CASE op \in {"+", "-"} -> 1
      [] op \in {"*", "/"} -> 2
      [] op = "^" -> 3

\* what a call returns for the outcome r of the arithmetic
Shown(r) == IF IsOk(r) THEN Ok(to_string_with_limit(r.val, DisplayLimit)) ELSE r

\* l op r, where an error of l, and then an error of r, is the outcome
Binary(op, l, r) ==
    IF ~IsOk(l) THEN l
    ELSE IF ~IsOk(r) THEN r
    ELSE Operate(op, l.val, r.val)

\* the outcome of a well-formed expression: it splits at its last operator of the
\* lowest precedence, the left part being the left operand
RECURSIVE Expected(_)
Expected(e) ==
    IF Len(e) = 1 THEN parse_number(e[1])
    ELSE LET ops == { j \in 1..Len(e) : j % 2 = 0 }
             P(j) == StatedPrecedence(e[j][1])
             k   == CHOOSE k \in ops :
                        \A j \in ops : P(j) > P(k) \/ (P(j) = P(k) /\ j <= k)
         IN  Let(Expected(SubSeq(e, 1, k - 1)),
                 LAMBDA l :
                     Let(Expected(SubSeq(e, k + 1, Len(e))),
                         LAMBDA r : Binary(e[k][1], l, r)))

\* 'a op1 b op2 c' as the specification groups it
ExpectedOfThree(a, op1, b, op2, c) ==
    IF StatedPrecedence(op2) > StatedPrecedence(op1)
    THEN Let(Binary(op2, parse_number(b), parse_number(c)),
             LAMBDA r : Binary(op1, parse_number(a), r))
    ELSE Let(Binary(op1, parse_number(a), parse_number(b)),
             LAMBDA l : Binary(op2, l, parse_number(c)))

\* C2: for every well-formed infix token sequence evaluate_expression applies the
\* operators by precedence (+,- = 1; *,/ = 2; ^ = 3), ties left to right, ^ included:
\* 'a op1 b op2 c' is a op1 (b op2 c) when op2 binds tighter than op1 and
\* (a op1 b) op2 c otherwise, and the operand popped second is the left operand.
C2_PrecedenceLeftToRight ==
    (pc = "done" /\ fn = "evaluate_expression" /\ WellFormed(tokens))
        => /\ ret = Shown(Expected(tokens))
           /\ Len(tokens) = 5
                => ret = Shown(ExpectedOfThree(tokens[1], tokens[2][1], tokens[3],
                                               tokens[4][1], tokens[5]))

\* "3 - 3 * 3" has returned -6
C2_Witness ==
    /\ pc = "done"
    /\ fn = "evaluate_expression"
    /\ tokens = <<<<"3">>, <<"-">>, <<"3">>, <<"*">>, <<"3">>>>
    /\ ret = Ok(<<"-", "6">>)

(***************************************************************************)
(* Division by zero.                                                       *)
(***************************************************************************)
\* a recorded application that is a division by a zero mantissa
ZeroDivision(entry) ==
    /\ entry.op = "/"
    /\ Len(entry.before) >= 2
    /\ is_zero(entry.before[Len(entry.before)].mantissa)

\* C3: divide returns the error "Division by zero" exactly when the mantissa of the
\* divisor is zero, whatever the dividend, the scale of the divisor and the precision;
\* a division by zero applied during evaluate_expression ends the call with that error.
C3_DivisionByZero ==
    /\ (pc = "done" /\ fn = "divide")
           => (ret = Err("Division by zero") <=> is_zero(args[2].mantissa))
    /\ (fn = "evaluate_expression" /\ \E i \in 1..Len(applied) : ZeroDivision(applied[i]))
           => (pc = "done" /\ ret = Err("Division by zero"))

\* an expression of three operands has divided by zero and returned the error
C3_Witness ==
    /\ pc = "done"
    /\ fn = "evaluate_expression"
    /\ Len(tokens) = 5
    /\ \E i \in 1..Len(applied) :
           /\ ZeroDivision(applied[i])
           /\ ~is_zero(applied[i].before[Len(applied[i].before) - 1].mantissa)
    /\ ret = Err("Division by zero")

(***************************************************************************)
(* Power: the result against exact repeated multiplication.                *)
(***************************************************************************)
\* x and y stand for the same number
SameValue(x, y) ==
    LET s == Max(x.scale, y.scale)
    IN  BigMul(x.mantissa, BigInt(FALSE, NatPow10(s - x.scale)))
            = BigMul(y.mantissa, BigInt(FALSE, NatPow10(s - y.scale)))

\* the whole number mantissa * 10^(-scale) of an exponent of scale <= 0
WholeNumber(exponent) == NatToInt(NatShift(exponent.mantissa.mag, -exponent.scale))

\* m^n
RECURSIVE BigPow(_, _)
BigPow(m, n) ==
    IF n = 0 THEN BigOne
    ELSE Let(BigPow(m, n - 1), LAMBDA r : BigMul(r, m))

\* base^n, exactly
ExactPower(base, n) == new(BigPow(base.mantissa, n), base.scale * n)

\* C4: for every base and every exponent of scale <= 0 whose value
\* n = mantissa * 10^(-scale) is a non-negative whole number, power returns exactly
\* base^n, which is (1, 0) when n = 0; an exponent of scale > 0 is rejected as
\* non-integer and a negative exponent as negative.
C4_PowerExact ==
    (pc = "done" /\ fn = "power")
        => LET base     == args[1]
               exponent == args[2]
           IN  IF exponent.scale > 0
               THEN ret = Err("Non-integer exponents not supported")
               ELSE IF exponent.mantissa.neg
               THEN ret = Err("Negative exponents not supported")
               ELSE /\ IsOk(ret)
                    /\ WholeNumber(exponent) = 0 => ret.val = new(BigOne, 0)
                    /\ SameValue(ret.val, ExactPower(base, WholeNumber(exponent)))

(***************************************************************************)
(* Operand and operator counts.                                            *)
(***************************************************************************)
Operands(e) == Cardinality({ i \in 1..Len(e) : IsOk(parse_number(e[i])) })

Operators(e) ==
    Cardinality({ i \in 1..Len(e) : ~IsOk(parse_number(e[i])) /\ IsOperatorToken(e[i]) })

\* a call on two or more tokens has returned
Returned == pc = "done" /\ fn = "evaluate_expression" /\ Len(tokens) >= 2

\* a value is returned only for one operand more than operators
ValueOnlyIfCountsMatch ==
    (Returned /\ IsOk(ret)) => Operands(tokens) = Operators(tokens) + 1

\* every application: fewer than two operands is "Not enough operands", which ends the
\* call; a successful one removes two operands and pushes one
ApplySteps ==
    fn = "evaluate_expression" =>
        \A i \in 1..Len(applied) :
            LET entry == applied[i]
            IN  /\ Len(entry.before) < 2
                    => /\ entry.result = Err("Not enough operands")
                       /\ pc = "done"
                       /\ ret = entry.result
                /\ IsOk(entry.result)
                    => /\ Len(entry.before) >= 2
                       /\ Len(entry.result.val) = Len(entry.before) - 1
                       /\ SubSeq(entry.result.val, 1, Len(entry.before) - 2)
                              = SubSeq(entry.before, 1, Len(entry.before) - 2)

\* all operators applied and the operand stack not of one value: "Invalid expression"
InvalidExpression ==
    (/\ Returned
     /\ \A i \in 1..Len(tokens) : IsOk(parse_number(tokens[i])) \/ IsOperatorToken(tokens[i])
     /\ \A i \in 1..Len(applied) : IsOk(applied[i].result)
     /\ Operands(tokens) # Operators(tokens) + 1)
        => ret = Err("Invalid expression")

\* the tokens are a number, two operators, a number
IsTwoOperators(e) ==
    /\ Len(e) = 4
    /\ IsOk(parse_number(e[1]))
    /\ ~IsOk(parse_number(e[2])) /\ IsOperatorToken(e[2])
    /\ ~IsOk(parse_number(e[3])) /\ IsOperatorToken(e[3])
    /\ IsOk(parse_number(e[4]))

\* C10 as stated: a value is returned only for one operand more than operators; an
\* operator applied to fewer than two operands yields "Not enough operands", as for
\* 'a op1 op2 b' with any two operators; an operand stack left with other than one
\* value yields "Invalid expression"; each application removes two operands and pushes one.
C10_NotEnoughOperandsForAnyTwoOperators ==
    /\ ValueOnlyIfCountsMatch
    /\ ApplySteps
    /\ InvalidExpression
    /\ (Returned /\ IsTwoOperators(tokens)) => ret = Err("Not enough operands")

\* C10, amended: as stated, except that 'a op1 op2 b' returns the error of 'a op2 b'
\* when op2 binds tighter than op1 and 'a op2 b' fails, and "Not enough operands"
\* in every other case.
C10_OperandCount ==
    /\ ValueOnlyIfCountsMatch
    /\ ApplySteps
    /\ InvalidExpression
    /\ (Returned /\ IsTwoOperators(tokens))
           => LET inner == Binary(tokens[3][1], parse_number(tokens[1]), parse_number(tokens[4]))
              IN  ret = IF /\ StatedPrecedence(tokens[3][1]) > StatedPrecedence(tokens[2][1])
                           /\ ~IsOk(inner)
                        THEN inner
                        ELSE Err("Not enough operands")

\* "3 + / 0" has returned "Division by zero"
C10_Witness ==
    /\ Returned
    /\ tokens = <<<<"3">>, <<"+">>, <<"/">>, <<"0">>>>
    /\ Len(applied) = 1
    /\ ret = Err("Division by zero")

(***************************************************************************)
(* Laws of addition.                                                       *)
(***************************************************************************)
\* C7: for every value x, of any mantissa and any scale, negative scales included,
\* add(x, parse("0")) equals normalize(x) as a (mantissa, scale) pair.
C7_AdditiveIdentity ==
    (pc = "done" /\ fn = "add" /\ args[2] = parse_number(<<"0">>).val)
        => ret = Ok(normalize(args[1]))

\* C8: for all values a, b, c, of any scales, negative scales and zero partial sums
\* included, add(add(a, b), c) equals add(a, add(b, c)) as a (mantissa, scale) pair.
C8_AddAssociative ==
    (pc = "done" /\ fn = "add_three") => ret.val[1] = ret.val[2]

(***************************************************************************)
(* The scientific fallback of to_string_with_limit.                        *)
(***************************************************************************)
Formatted == pc = "done" /\ fn = "to_string_with_limit"

\* C5 as stated: for every value, a zero mantissa included, and every limit, the
\* result holds an 'e' exactly when the plain form is longer than max_chars; a plain
\* form of at most max_chars characters is returned unchanged.
C5_ExponentMarkerIffTooLong ==
    Formatted =>
        LET plain == to_standard_string(args[1])
        IN  /\ Contains(ret.val, "e") <=> Len(plain) > args[2]
            /\ Len(plain) <= args[2] => ret.val = plain

\* C5, amended: the equivalence holds for every value of non-zero mantissa; a zero
\* mantissa whose plain form is longer than max_chars gives "0", without 'e'.
C5_ExponentMarker ==
    Formatted =>
        LET plain == to_standard_string(args[1])
        IN  /\ ~is_zero(args[1].mantissa)
                => (Contains(ret.val, "e") <=> Len(plain) > args[2])
            /\ (is_zero(args[1].mantissa) /\ Len(plain) > args[2]) => ret.val = <<"0">>
            /\ Len(plain) <= args[2] => (ret.val = plain /\ ~Contains(plain, "e"))

\* zero at scale 3, whose plain form "0.000" is longer than the limit 4, has given "0"
C5_Witness ==
    /\ Formatted
    /\ args = <<new(BigZero, 3), 4>>
    /\ ret = Ok(<<"0">>)

(***************************************************************************)
(* Round trip: a plain decimal text parsed and formatted.                  *)
(***************************************************************************)
\* optional sign, integer digits, optional fractional digits
IsPlainDecimal(s) ==
    LET body == IF s # <<>> /\ s[1] \in {"+", "-"} THEN Tail(s) ELSE s
        dot  == Find(body, ".")
    IN  IF dot = 0 THEN body # <<>> /\ AllDigits(body)
        ELSE /\ dot > 1 /\ dot < Len(body)
             /\ AllDigits(SubSeq(body, 1, dot - 1))
             /\ AllDigits(SubSeq(body, dot + 1, Len(body)))

\* the digits of s from its first non-zero digit on
SignificantDigits(s) ==
    LET digits == SelectSeq(s, LAMBDA c : IsDigit(c))
    IN  IF \A i \in 1..Len(digits) : digits[i] = "0" THEN 0
        ELSE Len(digits) + 1 - (CHOOSE i \in 1..Len(digits) :
                                    digits[i] # "0" /\ \A j \in 1..(i - 1) : digits[j] = "0")

AllZero(s) == \A i \in 1..Len(s) : IsDigit(s[i]) => s[i] = "0"

\* s without a leading plus sign and without the redundant leading zeros of its
\* integer part
Canonical(s) ==
    LET minus == s[1] = "-"
        body  == IF s[1] \in {"+", "-"} THEN Tail(s) ELSE s
        dot   == Find(body, ".")
        int   == IF dot = 0 THEN body ELSE SubSeq(body, 1, dot - 1)
        rest  == IF dot = 0 THEN <<>> ELSE SubSeq(body, dot, Len(body))
        first == IF AllZero(int) THEN Len(int)
                 ELSE CHOOSE i \in 1..Len(int) : int[i] # "0" /\ \A j \in 1..(i - 1) : int[j] = "0"
    IN  (IF minus THEN <<"-">> ELSE <<>>) \o SubSeq(int, first, Len(int)) \o rest

\* a call on one token that is a plain decimal text of at most 10 significant
\* digits has returned
RoundTripped ==
    /\ pc = "done"
    /\ fn = "evaluate_expression"
    /\ Len(tokens) = 1
    /\ IsPlainDecimal(tokens[1])
    /\ SignificantDigits(tokens[1]) <= 10

\* C6 as stated: for every plain decimal text s of at most 10 significant digits,
\* negative texts and texts of zero digits only included, format(parse(s), 25) is
\* canonical(s).
C6_RoundTripForAllTexts == RoundTripped => ret = Ok(Canonical(tokens[1]))

\* canonical(s), where zero has no minus sign
CanonicalUnsignedZero(s) ==
    IF AllZero(s) /\ s[1] = "-" THEN Tail(Canonical(s)) ELSE Canonical(s)

\* C6, amended: format(parse(s), 25) is canonical(s), a zero losing its minus sign,
\* exactly when that text has at most 25 characters.
C6_RoundTrip ==
    RoundTripped =>
        LET expected == CanonicalUnsignedZero(tokens[1])
        IN  ret = Ok(expected) <=> Len(expected) <= DisplayLimit

\* "-0.0" has come back as "0.0"
C6_Witness ==
    /\ RoundTripped
    /\ tokens = <<<<"-", "0", ".", "0">>>>
    /\ ret = Ok(<<"0", ".", "0">>)

(***************************************************************************)
(* Failures are returned, never raised.                                    *)
(***************************************************************************)
\* C9: every call returns a value or an error and never panics: the scale computed
\* when parsing scientific notation, in multiply, in divide and in scientific
\* formatting stays inside the i32 range.
C9_NoOverflow ==
    pc = "done" =>
        /\ ~IsFault(ret)
        /\ fn = "parse_number" => ~from_scientific_overflows(args[1])
        /\ fn = "multiply" => ~multiply_overflows(args[1], args[2])
        /\ fn = "divide" => ~divide_overflows(args[1], args[2], args[3])
        /\ fn = "to_scientific_notation" => ~to_scientific_overflows(args[1])

(***************************************************************************)
(* The order of the tokens.                                                *)
(***************************************************************************)
\* every token is a number or one of the five operators
ValidTokens(e) ==
    \A i \in 1..Len(e) : IsOk(parse_number(e[i])) \/ IsOperatorToken(e[i])

\* operand, operator, operand, ...: the first and the last token are operands
InfixOrder(e) ==
    /\ Len(e) % 2 = 1
    /\ \A i \in 1..Len(e) :
        IF i % 2 = 1 THEN IsOk(parse_number(e[i]))
        ELSE ~IsOk(parse_number(e[i])) /\ IsOperatorToken(e[i])

\* C11: a call on two or more tokens returns a value only when the tokens are in
\* infix order; valid number and operator tokens in any other order (two adjacent
\* operands, an operator first or last, two adjacent operators) return an error.
C11_InfixOrderOnly ==
    /\ (Returned /\ IsOk(ret)) => InfixOrder(tokens)
    /\ (Returned /\ ValidTokens(tokens) /\ ~InfixOrder(tokens)) => IsErr(ret)

(***************************************************************************)
(* The history of the Calculator.                                          *)
(***************************************************************************)
\* a Calculate step: the newest entry is that of the input, the oldest entry is
\* dropped from a full history and from no other, and no other entry changes
CalculateAppends ==
    fn' = "Calculate" =>
        LET history == calculator.history
            after   == calculator'.history
        IN  /\ after # <<>>
            /\ after[Len(after)].input = calculator.current_input
            /\ SubSeq(after, 1, Len(after) - 1)
                   = IF Len(history) = HistoryLimit THEN Tail(history) ELSE history

\* C12: after any sequence of messages from Calculator::new() the history holds at
\* most 50 entries, a Calculate on a full history dropping the oldest entry and
\* appending the new one; history_index <= history.len(), so that no history access
\* of NavigateHistoryPrevious and NavigateHistoryNext is out of bounds; and
\* Calculate, Clear and ClearHistory leave history_index at 0.
C12_HistoryBounded ==
    /\ [](/\ Len(calculator.history) <= HistoryLimit
          /\ calculator.history_index <= Len(calculator.history)
          /\ ~IsFault(ret)
          /\ fn \in Resetting => calculator.history_index = 0)
    /\ [][CalculateAppends]_vars

\* a Calculate on a full history has dropped the oldest entry
C12_Witness ==
    /\ fn = "Calculate"
    /\ args = <<HistoryLimit>>
    /\ Len(calculator.history) = HistoryLimit
    /\ calculator.history_index = 0
====
